---- MODULE Spec2Model ----
(***************************************************************************)
(* A model of update_fingerprints.py: the hash cache db.csv, the artifact  *)
(* files under assets/, the README report, and the run of main() over the  *)
(* Axelrod-library strategies and then the Fortran strategies.             *)
(*                                                                         *)
(* Text is a sequence of tokens.  A token is one character of a strategy   *)
(* name, or a piece of text that holds no delimiter and is never taken     *)
(* apart (a fingerprint kind, a hex digest, a directory or an extension).  *)
(* No text of the model holds a quote or a line break, so csv.reader's     *)
(* default dialect splits a line at its commas and nowhere else.           *)
(***************************************************************************)
EXTENDS FiniteSets, Integers, Sequences, TLC

VARIABLES
    axl,        \* axl.short_run_time_strategies: the names of the classes, in order
    fortran,    \* axlf.all_strategies: the names, in order
    version,    \* revision of the source text of each Axelrod class
    dbExists,   \* db.csv is on disk
    dbRows,     \* the lines of db.csv
    assets,     \* files under assets/: records [path, of]
    readme,     \* contents of README.md
    pc,         \* position of main: idle, test, markdown, readme, done, aborted
    loop,       \* 1: the Axelrod loop (236-258); 2: the Fortran loop (266-289)
    i,          \* index of the current iteration
    strategy,   \* Python variable `strategy`
    player,     \* Python variable `player`
    name,       \* Python variable `name`
    signature,  \* Python variable `signature`
    fp,         \* Python variable `fp`
    db,         \* Python variable `db`: the mapping read at the start of main
    markdown,   \* Python variable `markdown`
    log,        \* history: what this run computed and wrote, in order
    runs,       \* history: number of runs of main started
    edited,     \* history: a source text changed since the last run started
    rerun,      \* history: this run follows a completed run with no edit between
    raised,     \* history: number of runs an exception has ended
    written,    \* history: (name, kind) -> hash of the latest write (SpecDb)
    arg,        \* the string handed to format_filename
    ret,        \* the latest result of format_filename
    prev,       \* the result before that
    calls       \* number of format_filename calls made on arg

vars == <<axl, fortran, version, dbExists, dbRows, assets, readme, pc, loop, i,
          strategy, player, name, signature, fp, db, markdown, log, runs,
          edited, rerun, raised, written, arg, ret, prev, calls>>

-----------------------------------------------------------------------------
(* Bounds *)

MaxLen == 3
MaxAxl == 2
MaxFortran == 1
MaxRuns == 2
MaxEvents == 1
MaxRows == 2

(* Characters of the model: letters, a digit, the punctuation of valid_chars, *)
(* and two characters outside it.                                              *)
ascii_letters == <<"a", "b", "Z">>
digits == <<"7">>
Alphabet == {"a", "b", "Z", "7", "-", "_", ".", "(", ")", " ", ",", ":"}

(* Names of the classes axl.short_run_time_strategies may hold, and the     *)
(* list axlf.all_strategies is a prefix of.                                  *)
AxlNames == {<<"a", "b">>, <<"a", "_", "b">>, <<"a", " ", "b">>}
FortranNames == <<<<"Z", "7">>, <<"Z">>, <<"7">>>>

Range(f) == {f[n] : n \in DOMAIN f}

Strings(len) == UNION {[1..n -> Alphabet] : n \in 0..len}

DistinctLists(S, lo, hi) ==
    {l \in UNION {[1..n -> S] : n \in lo..hi} :
        \A m, n \in DOMAIN l : m # n => l[m] # l[n]}

EmptyMap == [key \in {} |-> <<>>]

NoStrategy == [lib |-> "none", name |-> <<>>]

Kinds == <<"Ashlock", "Transitive", "Transitive_v_short">>

-----------------------------------------------------------------------------
(* Strategies.  An Axelrod strategy is a class with the attribute name; a   *)
(* Fortran strategy is a Player instance with the attribute original_name.  *)
(* The field name of the record holds whichever the object has.             *)

AxlClass(n) == [lib |-> "axl", name |-> n]

Player(n) == [lib |-> "fortran", name |-> n]

(* try: strategy.original_name; except AttributeError: strategy.name *)
display_name(s) == s.name

(* An MD5 hex digest: one token, different for different texts. *)
hexdigest(text) == <<"md5:" \o ToString(text)>>

(* The source text of a class changes with its revision; for a Player       *)
(* instance inspect raises TypeError and the text is the original name.     *)
hash_strategy(s) ==
    IF s.lib = "axl"
    THEN hexdigest([class |-> s.name, rev |-> version[s.name]])
    ELSE hexdigest(s.name)

-----------------------------------------------------------------------------
(* The cache file *)

write_strategy_to_db(s, fingerprint) ==
    Append(dbRows,
           display_name(s) \o <<",">> \o <<fingerprint>> \o <<",">>
               \o hash_strategy(s))

RECURSIVE csv_row(_)
csv_row(line) ==
    IF \A n \in 1..Len(line) : line[n] # ","
    THEN <<line>>
    ELSE LET c == CHOOSE n \in 1..Len(line) :
                      line[n] = "," /\ \A m \in 1..(n - 1) : line[m] # ","
         IN  <<SubSeq(line, 1, c - 1)>> \o csv_row(SubSeq(line, c + 1, Len(line)))

read_db(rows) ==
    LET row == [n \in 1..Len(rows) |-> csv_row(rows[n])]
        keys == {<<row[n][1], row[n][2]>> : n \in 1..Len(rows)}
        last(key) == CHOOSE n \in 1..Len(rows) :
                         /\ <<row[n][1], row[n][2]>> = key
                         /\ \A m \in (n + 1)..Len(rows) : <<row[m][1], row[m][2]>> # key
    IN  [key \in keys |-> row[last(key)][3]]

create_db == <<>>

(* try: db = read_db(); except FileNotFoundError: create_db(); db = read_db() *)
main_open_db_mut == create_db
main_open_db == IF dbExists THEN dbRows ELSE create_db

-----------------------------------------------------------------------------
(* File names, artifacts, report sections *)

valid_chars_mut == <<"-", ".", "(", ")", " ">> \o ascii_letters \o digits
valid_chars == <<"-", "_", ".", "(", ")", " ">> \o ascii_letters \o digits

replace(s, old, new) == [n \in 1..Len(s) |-> IF s[n] = old THEN new ELSE s[n]]

format_filename_mut(s) ==
    SelectSeq(s, LAMBDA c : \E n \in 1..Len(valid_chars) : valid_chars[n] = c)
format_filename(s) ==
    LET filename ==
            SelectSeq(s, LAMBDA c : \E n \in 1..Len(valid_chars) : valid_chars[n] = c)
    IN  replace(filename, " ", "_")

prefix(kind) ==
    CASE kind = "Ashlock" -> <<"assets/">>
      [] kind = "Transitive" -> <<"assets/", "transitive_">>
      [] kind = "Transitive_v_short" -> <<"assets/", "transitive_v_short_">>

artifact(kind, s, ext) == prefix(kind) \o format_filename(display_name(s)) \o <<ext>>

Event(ev, s, kind, path) == [ev |-> ev, of |-> s, kind |-> kind, path |-> path]

(* obtain_transitive_fingerprint, obtain_transitive_fingerprint_v_short:    *)
(* compute, savefig, savetxt.  The call of obtain_fingerprint is commented  *)
(* out in main, so the Ashlock kind computes and writes nothing.            *)
obtain_events(kind, s) ==
    IF kind = "Ashlock"
    THEN <<>>
    ELSE <<Event("fingerprint", s, kind, <<>>),
           Event("savefig", s, kind, artifact(kind, s, ".png")),
           Event("savetxt", s, kind, artifact(kind, s, ".csv"))>>

obtain_assets(kind, s) ==
    IF kind = "Ashlock"
    THEN assets
    ELSE LET paths == {artifact(kind, s, ".png"), artifact(kind, s, ".csv")}
         IN  {a \in assets : a.path \notin paths}
                 \cup {[path |-> p, of |-> s] : p \in paths}

Header(title) == [level |-> 1, title |-> <<title>>, file |-> <<>>]

write_markdown(s) ==
    [level |-> 2, title |-> display_name(s), file |-> format_filename(display_name(s))]

-----------------------------------------------------------------------------
(* main *)

Key(n, kind) == <<n, <<kind>>>>

(* (name, fp) not in db or db[name, fp] != signature *)
Stale == IF Key(name, fp) \notin DOMAIN db THEN TRUE ELSE db[Key(name, fp)] # signature

Idle == pc \in {"idle", "done", "aborted"}

(* for strategy in axl.short_run_time_strategies: name = ...; signature = ... *)
AxlIteration(idx) ==
    /\ loop' = 1
    /\ i' = idx
    /\ strategy' = AxlClass(axl[idx])
    /\ name' = strategy'.name
    /\ signature' = hash_strategy(strategy')
    /\ fp' = Kinds[1]
    /\ pc' = "test"
    /\ UNCHANGED player

(* for name in axlf.all_strategies: player = ...; name = ...; signature = ... *)
FortranIteration(idx) ==
    /\ loop' = 2
    /\ i' = idx
    /\ player' = Player(fortran[idx])
    /\ name' = player'.name
    /\ signature' = hash_strategy(player')
    /\ fp' = Kinds[1]
    /\ pc' = "test"
    /\ UNCHANGED strategy

(* The step after one kind's block: the next kind, or write_markdown. *)
NextKind ==
    IF fp = Kinds[3]
    THEN pc' = "markdown" /\ fp' = fp
    ELSE /\ pc' = "test"
         /\ fp' = (IF fp = Kinds[1] THEN Kinds[2] ELSE Kinds[3])

(* The events of the environment so far: edits of a source text and       *)
(* exceptions that ended a run.                                            *)
RECURSIVE Edits(_)
Edits(S) ==
    IF S = {} THEN 0
    ELSE LET n == CHOOSE m \in S : TRUE IN version[n] + Edits(S \ {n})

EventsLeft == Edits(DOMAIN version) + raised < MaxEvents

StartRun ==
    /\ Idle
    /\ runs < MaxRuns
    /\ runs' = runs + 1
    /\ rerun' = (pc = "done" /\ ~edited)
    /\ edited' = FALSE
    /\ markdown' = <<Header("# Axelrod library fingerprints")>>
    /\ dbExists' = TRUE
    /\ dbRows' = main_open_db
    /\ db' = read_db(dbRows')
    /\ log' = <<>>
    /\ AxlIteration(1)
    /\ UNCHANGED <<axl, fortran, version, assets, readme, raised, written, arg, ret,
                   prev, calls>>

(* The condition of a kind's block is false: nothing is done for the kind. *)
Fresh ==
    /\ pc = "test"
    /\ ~Stale
    /\ NextKind
    /\ UNCHANGED <<axl, fortran, version, dbExists, dbRows, assets, readme, loop, i,
                   strategy, player, name, signature, db, markdown, log, runs,
                   edited, rerun, raised, written, arg, ret, prev, calls>>

(* The condition is true: the block's obtain_* call and then its           *)
(* write_strategy_to_db call, both handed `strategy`.                       *)
Regenerate ==
    /\ pc = "test"
    /\ Stale
    /\ assets' = obtain_assets(fp, strategy)
    /\ dbRows' = write_strategy_to_db(strategy, fp)
    /\ dbExists' = TRUE
    /\ log' = log \o obtain_events(fp, strategy)
                  \o <<Event("dbrow", strategy, fp, <<>>)>>
    /\ NextKind
    /\ UNCHANGED <<axl, fortran, version, readme, loop, i, strategy, player, name,
                   signature, db, markdown, runs, edited, rerun, raised, written,
                   arg, ret, prev, calls>>

(* The condition is true and the fingerprint computation raises: the        *)
(* exception leaves main before anything of the block is written.           *)
ObtainRaises ==
    /\ pc = "test"
    /\ Stale
    /\ fp # "Ashlock"
    /\ EventsLeft
    /\ raised' = raised + 1
    /\ pc' = "aborted"
    /\ UNCHANGED <<axl, fortran, version, dbExists, dbRows, assets, readme, loop, i,
                   strategy, player, name, signature, fp, db, markdown, log, runs,
                   edited, rerun, written, arg, ret, prev, calls>>

(* markdown += write_markdown(strategy), then the for statement moves on. *)
Markdown ==
    /\ pc = "markdown"
    /\ markdown' =
           IF loop = 1 /\ i = Len(axl)
           THEN markdown \o <<write_markdown(strategy),
                              Header("# Second tournament fortran strategy fingerprints")>>
           ELSE Append(markdown, write_markdown(strategy))
    /\ IF loop = 1 /\ i < Len(axl) THEN AxlIteration(i + 1)
       ELSE IF loop = 1 /\ fortran # <<>> THEN FortranIteration(1)
       ELSE IF loop = 2 /\ i < Len(fortran) THEN FortranIteration(i + 1)
       ELSE /\ pc' = "readme"
            /\ UNCHANGED <<loop, i, strategy, player, name, signature, fp>>
    /\ UNCHANGED <<axl, fortran, version, dbExists, dbRows, assets, readme, db, log,
                   runs, edited, rerun, raised, written, arg, ret, prev, calls>>

(* with open("README.md", "w") as outfile: outfile.write(markdown) *)
WriteReadme ==
    /\ pc = "readme"
    /\ readme' = markdown
    /\ pc' = "done"
    /\ UNCHANGED <<axl, fortran, version, dbExists, dbRows, assets, loop, i, strategy,
                   player, name, signature, fp, db, markdown, log, runs, edited,
                   rerun, raised, written, arg, ret, prev, calls>>

(* Between two runs the source text of a class is edited. *)
EditSource ==
    /\ pc \in {"done", "aborted"}
    /\ runs < MaxRuns
    /\ EventsLeft
    /\ \E n \in DOMAIN version : version' = [version EXCEPT ![n] = @ + 1]
    /\ edited' = TRUE
    /\ UNCHANGED <<axl, fortran, dbExists, dbRows, assets, readme, pc, loop, i,
                   strategy, player, name, signature, fp, db, markdown, log, runs,
                   rerun, raised, written, arg, ret, prev, calls>>

Init ==
    /\ axl \in DistinctLists(AxlNames, 1, MaxAxl)
    /\ fortran \in {SubSeq(FortranNames, 1, n) : n \in 0..MaxFortran}
    /\ version = [n \in Range(axl) |-> 0]
    /\ dbExists = FALSE
    /\ dbRows = <<>>
    /\ assets = {}
    /\ readme = <<>>
    /\ pc = "idle"
    /\ loop = 0
    /\ i = 0
    /\ strategy = NoStrategy
    /\ player = NoStrategy
    /\ name = <<>>
    /\ signature = <<>>
    /\ fp = ""
    /\ db = EmptyMap
    /\ markdown = <<>>
    /\ log = <<>>
    /\ runs = 0
    /\ edited = FALSE
    /\ rerun = FALSE
    /\ raised = 0
    /\ written = EmptyMap
    /\ arg = <<>>
    /\ ret = <<>>
    /\ prev = <<>>
    /\ calls = 0

Next ==
    \/ StartRun
    \/ Fresh
    \/ Regenerate
    \/ ObtainRaises
    \/ Markdown
    \/ WriteReadme
    \/ EditSource

Spec == Init /\ [][Next]_vars

-----------------------------------------------------------------------------
(* The cache file alone: any sequence of write_strategy_to_db calls on a   *)
(* file made by create_db, for strategies whose source may be edited.      *)

DbStrategies ==
    {AxlClass(n) : n \in AxlNames \cup {<<"a", ",", "b">>}}
        \cup {Player(FortranNames[1])}

InitDb ==
    /\ axl = <<>>
    /\ fortran = <<>>
    /\ version = [n \in AxlNames \cup {<<"a", ",", "b">>} |-> 0]
    /\ dbExists = TRUE
    /\ dbRows = create_db
    /\ assets = {}
    /\ readme = <<>>
    /\ pc = "idle"
    /\ loop = 0
    /\ i = 0
    /\ strategy = NoStrategy
    /\ player = NoStrategy
    /\ name = <<>>
    /\ signature = <<>>
    /\ fp = ""
    /\ db = EmptyMap
    /\ markdown = <<>>
    /\ log = <<>>
    /\ runs = 0
    /\ edited = FALSE
    /\ rerun = FALSE
    /\ raised = 0
    /\ written = EmptyMap
    /\ arg = <<>>
    /\ ret = <<>>
    /\ prev = <<>>
    /\ calls = 0

DbWrite ==
    /\ Len(dbRows) < MaxRows
    /\ \E s \in DbStrategies, k \in Range(Kinds) :
           /\ dbRows' = write_strategy_to_db(s, k)
           /\ written' =
                  [key \in DOMAIN written \cup {Key(display_name(s), k)} |->
                      IF key = Key(display_name(s), k)
                      THEN hash_strategy(s)
                      ELSE written[key]]
    /\ UNCHANGED <<axl, fortran, version, dbExists, assets, readme, pc, loop, i,
                   strategy, player, name, signature, fp, db, markdown, log, runs,
                   edited, rerun, raised, arg, ret, prev, calls>>

DbEdit ==
    /\ EventsLeft
    /\ \E n \in DOMAIN version : version' = [version EXCEPT ![n] = @ + 1]
    /\ UNCHANGED <<axl, fortran, dbExists, dbRows, assets, readme, pc, loop, i,
                   strategy, player, name, signature, fp, db, markdown, log, runs,
                   edited, rerun, raised, written, arg, ret, prev, calls>>

NextDb ==
    \/ DbWrite
    \/ DbEdit

SpecDb == InitDb /\ [][NextDb]_vars

-----------------------------------------------------------------------------
(* format_filename alone: called on a string, then on its own result. *)

InitFmt ==
    /\ axl = <<>>
    /\ fortran = <<>>
    /\ version = EmptyMap
    /\ dbExists = FALSE
    /\ dbRows = <<>>
    /\ assets = {}
    /\ readme = <<>>
    /\ pc = "idle"
    /\ loop = 0
    /\ i = 0
    /\ strategy = NoStrategy
    /\ player = NoStrategy
    /\ name = <<>>
    /\ signature = <<>>
    /\ fp = ""
    /\ db = EmptyMap
    /\ markdown = <<>>
    /\ log = <<>>
    /\ runs = 0
    /\ edited = FALSE
    /\ rerun = FALSE
    /\ raised = 0
    /\ written = EmptyMap
    /\ arg \in Strings(MaxLen)
    /\ ret = <<>>
    /\ prev = <<>>
    /\ calls = 0

FormatFilename ==
    /\ calls < 2
    /\ calls' = calls + 1
    /\ prev' = ret
    /\ ret' = format_filename(IF calls = 0 THEN arg ELSE ret)
    /\ UNCHANGED <<axl, fortran, version, dbExists, dbRows, assets, readme, pc, loop,
                   i, strategy, player, name, signature, fp, db, markdown, log,
                   runs, edited, rerun, raised, written, arg>>

NextFmt == FormatFilename

SpecFmt == InitFmt /\ [][NextFmt]_vars

-----------------------------------------------------------------------------
(* Properties *)

(* The strategies a run processes, in processing order. *)
Processed ==
    [n \in 1..Len(axl) |-> AxlClass(axl[n])]
        \o [n \in 1..Len(fortran) |-> Player(fortran[n])]

KindSet == Range(Kinds)

(* A run of main has completed and nothing was edited since it started, so *)
(* db is the mapping it read and hash_strategy is what it computed.        *)
RunDone == pc = "done" /\ ~edited

InRun == runs > 0 /\ ~edited

(* The mapping read at the start has no entry for (s, k), or another hash. *)
StaleAtStart(s, k) ==
    IF Key(display_name(s), k) \notin DOMAIN db
    THEN TRUE
    ELSE db[Key(display_name(s), k)] # hash_strategy(s)

Computed(s, k) ==
    \E n \in DOMAIN log : log[n].ev = "fingerprint" /\ log[n].of = s /\ log[n].kind = k

FileWrite(e) == e.ev \in {"savefig", "savetxt"}

Saved(s, k) ==
    /\ \E n \in DOMAIN log :
           /\ log[n].ev = "savefig" /\ log[n].of = s /\ log[n].kind = k
           /\ log[n].path = prefix(k) \o format_filename(display_name(s)) \o <<".png">>
    /\ \E n \in DOMAIN log :
           /\ log[n].ev = "savetxt" /\ log[n].of = s /\ log[n].kind = k
           /\ log[n].path = prefix(k) \o format_filename(display_name(s)) \o <<".csv">>

Appended(s, k) ==
    \E n \in DOMAIN log : log[n].ev = "dbrow" /\ log[n].of = s /\ log[n].kind = k

IsPrefix(s, t) == Len(s) <= Len(t) /\ SubSeq(t, 1, Len(s)) = s

(* C1: when a run of main has completed, every processed strategy s and    *)
(* kind k whose cache entry was missing or had another hash at the start   *)
(* has had its fingerprint of kind k computed for s itself in that run,    *)
(* and its image and CSV written under format_filename(name of s).         *)
C1_Claim ==
    RunDone =>
        \A n \in DOMAIN Processed : \A k \in KindSet :
            StaleAtStart(Processed[n], k) =>
                Computed(Processed[n], k) /\ Saved(Processed[n], k)

(* C2: when a run of main has completed, read_db maps (name of s, k) to    *)
(* hash_strategy(s) for every processed strategy s and every kind k.       *)
C2_Claim ==
    RunDone =>
        \A n \in DOMAIN Processed : \A k \in KindSet :
            /\ Key(display_name(Processed[n]), k) \in DOMAIN read_db(dbRows)
            /\ read_db(dbRows)[Key(display_name(Processed[n]), k)]
                   = hash_strategy(Processed[n])

(* C3: a completed run that follows a completed run, with no source        *)
(* edited between, has computed no fingerprint, written no artifact and    *)
(* appended no cache row.                                                  *)
C3_Claim == (rerun /\ pc = "done") => log = <<>>

(* C4: during and after a run, a strategy s and kind k whose entry in the  *)
(* mapping read at the start holds hash_strategy(s) has no fingerprint     *)
(* computed, no artifact written and no cache row appended in that run;    *)
(* and the test of the current block finds the entry stale exactly when it *)
(* is absent or holds another hash than that of the strategy processed.    *)
C4_Claim ==
    InRun =>
        /\ \A n \in DOMAIN Processed : \A k \in KindSet :
               ~StaleAtStart(Processed[n], k) =>
                   /\ ~Computed(Processed[n], k)
                   /\ ~Appended(Processed[n], k)
                   /\ \A m \in DOMAIN log :
                          ~(FileWrite(log[m]) /\ log[m].of = Processed[n]
                                /\ log[m].kind = k)
        /\ pc = "test" =>
               (Stale <=> StaleAtStart(IF loop = 1 THEN strategy ELSE player, fp))

(* C5: read_db of the cache file is exactly the mapping of the written    *)
(* entries: each written (name, kind) maps to the hash of its latest write *)
(* and there is no other key.                                              *)
C5_Claim == read_db(dbRows) = written

(* C6: the README a completed run wrote holds exactly one section for each *)
(* processed strategy, in processing order, headed by the strategy's name  *)
(* and linking to the files named by format_filename of that name.         *)
C6_Claim ==
    RunDone =>
        SelectSeq(readme, LAMBDA e : e.level = 2)
            = [n \in DOMAIN Processed |->
                   [level |-> 2, title |-> display_name(Processed[n]),
                    file |-> format_filename(display_name(Processed[n]))]]

(* The sanitised text, character by character: an allowed character      *)
(* stays, a space becomes an underscore, any other is dropped.             *)
RECURSIVE Sanitized(_)
Sanitized(s) ==
    IF s = <<>> THEN <<>>
    ELSE (IF Head(s) = " " THEN <<"_">>
          ELSE IF Head(s) \in Range(ascii_letters) \cup Range(digits)
                                  \cup {"-", "_", ".", "(", ")"}
               THEN <<Head(s)>>
               ELSE <<>>)
             \o Sanitized(Tail(s))

(* C7: the result of format_filename holds only ASCII letters, digits and  *)
(* - _ . ( ), keeps the allowed characters of its input in their order     *)
(* with every space replaced by an underscore, and format_filename of the  *)
(* result is the result.                                                   *)
C7_Thm ==
    /\ calls >= 1 =>
           LET first == IF calls = 1 THEN ret ELSE prev
           IN  /\ first = Sanitized(arg)
               /\ \A c \in Range(first) :
                      c \in Range(ascii_letters) \cup Range(digits)
                                \cup {"-", "_", ".", "(", ")"}
    /\ calls = 2 => ret = prev

(* format_filename was called twice on a string holding a space, a         *)
(* character outside the allowed set, and a character that stays.          *)
C7_Witness ==
    /\ calls = 2
    /\ " " \in Range(arg)
    /\ ":" \in Range(arg)
    /\ "a" \in Range(arg)
    /\ ret = prev

(* C8: a step of main never shortens or rewrites an existing cache file;   *)
(* the step that starts main with no cache file on disk leaves an empty    *)
(* file and an empty mapping and goes on to the first strategy; and the    *)
(* mapping stays as read until the next run starts.                        *)
C8_Thm ==
    [][/\ dbExists => dbExists' /\ IsPrefix(dbRows, dbRows')
       /\ (runs' = runs + 1 /\ ~dbExists) =>
              dbExists' /\ dbRows' = <<>> /\ db' = EmptyMap /\ pc' = "test"
       /\ runs' = runs => db' = db]_vars

(* Two runs have completed: the first created the cache file and filled    *)
(* it, the second found it on disk.                                        *)
C8_Witness == runs = 2 /\ pc = "done" /\ raised = 0 /\ dbRows # <<>>

(* C9: every cache row appended in a run for (strategy, kind) comes after  *)
(* the writes of that kind's image and CSV for that strategy.              *)
C9_Claim ==
    \A n \in DOMAIN log :
        log[n].ev = "dbrow" =>
            /\ \E m \in 1..(n - 1) :
                   /\ log[m].ev = "savefig" /\ log[m].of = log[n].of
                   /\ log[m].kind = log[n].kind
            /\ \E m \in 1..(n - 1) :
                   /\ log[m].ev = "savetxt" /\ log[m].of = log[n].of
                   /\ log[m].kind = log[n].kind

(* C10: in one run, two artifact writes of strategies with different       *)
(* display names never go to the same file.                                *)
C10_Claim ==
    \A m, n \in DOMAIN log :
        (/\ FileWrite(log[m]) /\ FileWrite(log[n])
         /\ display_name(log[m].of) # display_name(log[n].of))
            => log[m].path # log[n].path

(* A name made of ASCII letters, digits and - _ . ( ) only. *)
Clean(n) ==
    \A c \in Range(n) :
        c \in Range(ascii_letters) \cup Range(digits) \cup {"-", "_", ".", "(", ")"}

(* C10, amended: two strategies with different display names, both made of *)
(* allowed characters with no space, get different file names, and in one  *)
(* run their artifact writes never go to the same file.                    *)
C10_Thm ==
    /\ \A m, n \in DOMAIN Processed :
           (/\ Clean(display_name(Processed[m])) /\ Clean(display_name(Processed[n]))
            /\ display_name(Processed[m]) # display_name(Processed[n]))
               => format_filename(display_name(Processed[m]))
                      # format_filename(display_name(Processed[n]))
    /\ \A m, n \in DOMAIN log :
           (/\ FileWrite(log[m]) /\ FileWrite(log[n])
            /\ Clean(display_name(log[m].of)) /\ Clean(display_name(log[n].of))
            /\ display_name(log[m].of) # display_name(log[n].of))
               => log[m].path # log[n].path

(* One run has written the same kind's image for two strategies with       *)
(* different names of allowed characters.                                  *)
C10_Witness ==
    \E m, n \in DOMAIN log :
        /\ log[m].ev = "savefig" /\ log[n].ev = "savefig"
        /\ log[m].kind = log[n].kind
        /\ Clean(display_name(log[m].of)) /\ Clean(display_name(log[n].of))
        /\ display_name(log[m].of) # display_name(log[n].of)

====
